---- MODULE Spec2Model ----
(***************************************************************************)
(* Tshikota Ro Farana stokvel: the submission ledger, the member ledger    *)
(* and the interest pool kept in the Firestore document store, and the     *)
(* admin page's approve / reject / add-member handlers that drive them.    *)
(* One step of the model is one request resolved by the document store     *)
(* (a read, a write or a batch commit); the steps of the two admin         *)
(* sessions interleave at every await of the handlers.                     *)
(***************************************************************************)
EXTENDS Integers, Sequences, FiniteSets, TLC

\* ---------------------------------------------------------------- bounds
MaxSubs == 2
MaxApprovals == 2
MaxMembers == 1
MaxMonths == 3
MaxDrawn == 2
MaxHours == 36

\* ------------------------------------------------------- policy constants
lateFineAmount == 50
graceperiodEndDay == 7
interestEligibilityMin == 10000
maxSkippedMonths == 3
sessionDuration == 24

\* ------------------------------------------------------------ input sets
Admins == {1, 2}
Years == {2024, 2025}
\* The forms filed in the modelled period: a late payment dated last December,
\* payments inside the grace period, by two submitters
Forms == {[name |-> "ann", phone |-> <<"0", "8", "-", "2">>, amount |-> 300,
           paymentDate |-> [year |-> 2024, day |-> 10],
           paymentMonth |-> "December 2024", paymentMethod |-> "eft"],
          [name |-> "ann", phone |-> <<"0", "8", "-", "2">>, amount |-> 400,
           paymentDate |-> [year |-> 2025, day |-> 3],
           paymentMonth |-> "January 2025", paymentMethod |-> "cash"],
          [name |-> "bob", phone |-> <<"0", "7", " ", "1">>, amount |-> 300,
           paymentDate |-> [year |-> 2025, day |-> 3],
           paymentMonth |-> "January 2025", paymentMethod |-> "eft"]}

\* Codes Utils.generateReference can draw ('TRF-' and six random characters)
References == {"TRF-A1B2C3", "TRF-X9Y8Z7"}

\* The code drawn in the flows in which the reference plays no part
OneReference == {"TRF-A1B2C3"}
Reasons == {"wrong proof"}
NoId == 0

VARIABLES submissions, members, interestPool, nowYear, nowMonth, adm, outcome,
          distribution, audit, report, stats, referenceNumber, session, nowHour

\* What the pages show: the last monthly report, the last dashboard
\* statistics, the reference code of the success modal
views == <<report, stats, referenceNumber>>

\* The admin session kept in the browser's storage, and the clock in hours
sessions == <<session, nowHour>>

vars == <<submissions, members, interestPool, nowYear, nowMonth, adm, outcome,
         distribution, audit, views, sessions>>

\* --------------------------------------------------------------- helpers
\* phone.replace(/[\s-]/g, ''): drop blanks and hyphens, keep the rest
RECURSIVE normalizePhone(_)
normalizePhone(p) ==
    IF p = <<>> THEN <<>>
    ELSE IF Head(p) \in {" ", "-"} THEN normalizePhone(Tail(p))
         ELSE <<Head(p)>> \o normalizePhone(Tail(p))

\* Variant of isPaymentLate that counts the grace period's last day as late
isPaymentLateFromGraceDay(paymentDate) ==
    paymentDate.day >= (IF graceperiodEndDay # 0 THEN graceperiodEndDay ELSE 7)

\* Utils.isPaymentLate: day of month after the grace period's last day
\* (APP_SETTINGS?.graceperiodEndDay || 7)
isPaymentLate(paymentDate) ==
    paymentDate.day > (IF graceperiodEndDay # 0 THEN graceperiodEndDay ELSE 7)

\* Variant of fineFor that charges the fine whether or not the payment is late
fineEveryTime(isLate) == IF lateFineAmount # 0 THEN lateFineAmount ELSE 50

\* submitPOP line 126: isLate ? (APP_SETTINGS?.lateFineAmount || 50) : 0
fineFor(isLate) ==
    IF isLate THEN (IF lateFineAmount # 0 THEN lateFineAmount ELSE 50) ELSE 0

NoSubmission == [id |-> NoId]
NoMember == [id |-> NoId]

\* No distribution computed yet
NoDistribution == [year |-> 0]

\* No monthly report and no dashboard statistics computed yet
NoReport == [period |-> ""]
NoStats == [memberCount |-> 0 - 1]

\* No admin session in the browser's storage, the login section showing
SignedOut == [isAdmin |-> FALSE, adminSessionStart |-> 0, dashboard |-> FALSE]

\* What the pages show and the session hold before anything has run
InitPages ==
    /\ audit = "none"
    /\ report = NoReport
    /\ stats = NoStats
    /\ referenceNumber = ""
    /\ session = SignedOut
    /\ nowHour = 0

\* Variant of logAdminAction without the try/catch around the append
logAdminActionThrows(appended) ==
    [audit |-> IF appended THEN "logged" ELSE "failed", thrown |-> ~appended]

\* Auth.logAdminAction: the entry is appended to auditLogs, or the append
\* fails and the catch logs it to the console; nothing is thrown either way
logAdminAction(appended) ==
    [audit |-> IF appended THEN "logged" ELSE "failed", thrown |-> FALSE]

\* What the caller of an operation that ends with logAdminAction gets
outcomeAfter(logged) == IF logged.thrown THEN "LogUnavailable" ELSE "ok"

\* An admin session with no handler running
Idle == [pc |-> "idle", op |-> "none", submissionId |-> NoId, memberId |-> NoId,
         submission |-> NoSubmission, year |-> 0, reason |-> ""]

\* Database.getSubmission: the stored record with its id, or null
getSubmission(submissionId) ==
    IF submissionId \in DOMAIN submissions
    THEN [id |-> submissionId] @@ submissions[submissionId]
    ELSE NoSubmission

RECURSIVE SumOf(_, _)
SumOf(f(_), S) ==
    IF S = {} THEN 0
    ELSE LET x == CHOOSE y \in S : TRUE IN f(x) + SumOf(f, S \ {x})

\* Approvals applied to the ledgers so far, and approve calls under way
verifiedCountOf(m) == members[m].verifiedCount
fineCreditsOf(y) == interestPool[y].totalFines \div lateFineAmount
ApprovalsApplied ==
    LET byMember == SumOf(verifiedCountOf, DOMAIN members)
        byPool == SumOf(fineCreditsOf, Years)
    IN IF byMember > byPool THEN byMember ELSE byPool
ApprovalsUnderWay == Cardinality({a \in Admins : adm[a].op = "approve"})
MayStartApproval == ApprovalsApplied + ApprovalsUnderWay < MaxApprovals

\* ------------------------------------------------------------------ Init
Init ==
    /\ submissions = <<>>
    /\ members = <<>>
    /\ interestPool = [y \in Years |-> [exists |-> FALSE, totalFines |-> 0, bankInterest |-> 0]]
    /\ nowYear = 2025
    /\ nowMonth = 0
    /\ adm = [a \in Admins |-> Idle]
    /\ outcome = "none"
    /\ distribution = NoDistribution
    /\ InitPages

\* -------------------------------------------------------------- actions
\* Database.submitPOP; reference is the code its own call of
\* Utils.generateReference draws, which overrides any reference in the data
submissionDocument(submissionData, reference) ==
    LET isLate == isPaymentLate(submissionData.paymentDate)
        fineAmount == fineFor(isLate)
    IN [name |-> submissionData.name,
        phone |-> normalizePhone(submissionData.phone),
        amount |-> submissionData.amount,
        paymentDate |-> submissionData.paymentDate,
        paymentMonth |-> submissionData.paymentMonth,
        paymentMethod |-> submissionData.paymentMethod,
        reference |-> reference,
        status |-> "pending",
        isLate |-> isLate,
        fineAmount |-> fineAmount,
        memberId |-> NoId,
        rejectionReason |-> ""]

submitPOP(submissionData, reference) ==
    /\ Len(submissions) < MaxSubs
    /\ submissions' = Append(submissions, submissionDocument(submissionData, reference))
    /\ outcome' = "none"
    /\ UNCHANGED <<members, interestPool, nowYear, nowMonth, distribution, adm,
                 audit, views, sessions>>

\* The submission form (SubmitPOP.handleSubmit) files one of the forms
SubmitStep == \E form \in Forms, reference \in OneReference : submitPOP(form, reference)

\* The same, with the forms of one submitter only
SubmitStepConcurrent ==
    \E form \in {f \in Forms : f.name = "ann"}, reference \in OneReference :
        submitPOP(form, reference)

\* Database.addMember's record
newMember(memberData) ==
    [name |-> memberData.name,
     phone |-> normalizePhone(memberData.phone),
     totalSavings |-> 0, totalFines |-> 0, verifiedCount |-> 0,
     status |-> "active", skippedMonths |-> 0, createdAt |-> nowMonth]

\* Auth.lookupMember: first member with the normalized phone whose name
\* matches, with its id; null otherwise
lookupMember(name, phone) ==
    LET hits == {i \in DOMAIN members : members[i].phone = normalizePhone(phone)}
    IN IF hits = {} THEN NoMember
       ELSE LET i == CHOOSE j \in hits : \A k \in hits : j <= k
            IN IF members[i].name = name
               THEN [id |-> i] @@ members[i]
               ELSE NoMember

\* admin.js openSubmissionDetail + handleApprove up to its first await: the
\* admin opens a card whose loaded status is pending and confirms Approve
handleApprove(a, s) ==
    /\ adm[a].pc = "idle"
    /\ s \in DOMAIN submissions
    /\ submissions[s].status = "pending"
    /\ MayStartApproval
    /\ adm' = [adm EXCEPT ![a] = [Idle EXCEPT !.op = "approve", !.submissionId = s,
                                             !.pc = "lookupMember"]]
    /\ outcome' = "none"
    /\ UNCHANGED <<submissions, members, interestPool, nowYear, nowMonth, distribution,
                 audit, views, sessions>>

\* admin.js handleApprove line 435: Auth.lookupMember resolves
handleApproveLookup(a) ==
    /\ adm[a].pc = "lookupMember"
    /\ LET cur == submissions[adm[a].submissionId]
           member == lookupMember(cur.name, cur.phone)
       IN adm' = [adm EXCEPT ![a] =
              [@ EXCEPT !.memberId = member.id,
                        !.pc = IF member = NoMember THEN "addMember" ELSE "getSubmission"]]
    /\ outcome' = "none"
    /\ UNCHANGED <<submissions, members, interestPool, nowYear, nowMonth, distribution,
                 audit, views, sessions>>

\* admin.js handleApprove lines 438-443: Database.addMember for the submitter,
\* which ends with logAdminAction('member_added'); appended tells whether the
\* audit entry could be written
handleApproveAddMemberLogging(a, appended) ==
    /\ adm[a].pc = "addMember"
    /\ LET cur == submissions[adm[a].submissionId]
       IN members' = Append(members, newMember([name |-> cur.name, phone |-> cur.phone]))
    /\ adm' = [adm EXCEPT ![a] =
                  IF logAdminAction(appended).thrown
                  THEN Idle
                  ELSE [@ EXCEPT !.memberId = Len(members) + 1, !.pc = "getSubmission"]]
    /\ audit' = logAdminAction(appended).audit
    /\ outcome' = IF logAdminAction(appended).thrown THEN "LogUnavailable" ELSE "none"
    /\ UNCHANGED <<submissions, interestPool, nowYear, nowMonth, distribution,
                 views, sessions>>

handleApproveAddMember(a) == handleApproveAddMemberLogging(a, TRUE)

\* The same step when the audit entry cannot be appended
handleApproveAddMemberLogFails(a) == handleApproveAddMemberLogging(a, FALSE)

\* Database.approveSubmission called with a submission id, and with a member
\* id or with none
callApproveSubmission(a, s, m) ==
    /\ adm[a].pc = "idle"
    /\ m \in DOMAIN members \cup {NoId}
    /\ MayStartApproval
    /\ adm' = [adm EXCEPT ![a] = [Idle EXCEPT !.op = "approve", !.submissionId = s,
                                             !.memberId = m, !.pc = "getSubmission"]]
    /\ outcome' = "none"
    /\ UNCHANGED <<submissions, members, interestPool, nowYear, nowMonth, distribution,
                 audit, views, sessions>>

\* Database.approveSubmission lines 250-287: read the submission, build the batch
approveGetSubmission(a) ==
    /\ adm[a].pc = "getSubmission"
    /\ adm[a].op = "approve"
    /\ LET submission == getSubmission(adm[a].submissionId)
       IN IF submission = NoSubmission
          THEN /\ adm' = [adm EXCEPT ![a] = Idle]
               /\ outcome' = "NotFound"
          ELSE /\ adm' = [adm EXCEPT ![a] =
                      [@ EXCEPT !.pc = "commit",
                                !.submission = [id |-> submission.id,
                                                status |-> submission.status,
                                                amount |-> submission.amount,
                                                fineAmount |-> submission.fineAmount],
                                !.year = nowYear]]
               /\ outcome' = "none"
    /\ UNCHANGED <<submissions, members, interestPool, nowYear, nowMonth, distribution,
                 audit, views, sessions>>

\* Variant of batchSubmission that also writes the fine back into the
\* submission as settled
batchSubmissionSettlesFine(subs, call) ==
    [subs EXCEPT ![call.submissionId] =
        [@ EXCEPT !.status = "verified", !.memberId = call.memberId,
                  !.fineAmount = 0]]

\* The three writes of the batch (lines 258-286) applied to the store
batchSubmission(subs, call) ==
    [subs EXCEPT ![call.submissionId] =
        [@ EXCEPT !.status = "verified", !.memberId = call.memberId]]

\* Variant of batchMember that writes the amounts instead of incrementing by them
batchMemberOverwrite(mems, call) ==
    IF call.memberId # NoId
    THEN [mems EXCEPT ![call.memberId] =
            [@ EXCEPT !.totalSavings = call.submission.amount,
                      !.totalFines = call.submission.fineAmount,
                      !.verifiedCount = 1,
                      !.skippedMonths = 0]]
    ELSE mems

batchMember(mems, call) ==
    IF call.memberId # NoId
    THEN [mems EXCEPT ![call.memberId] =
            [@ EXCEPT !.totalSavings = @ + call.submission.amount,
                      !.totalFines = @ + call.submission.fineAmount,
                      !.verifiedCount = @ + 1,
                      !.skippedMonths = 0]]
    ELSE mems

\* Variant of batchInterestPool without the fineAmount > 0 condition
batchInterestPoolAlways(pool, call) ==
    [pool EXCEPT ![call.year] =
        [@ EXCEPT !.exists = TRUE,
                  !.totalFines = @ + call.submission.fineAmount]]

\* Variant of batchInterestPool that sets the pool's totalFines to the fine
batchInterestPoolOverwrite(pool, call) ==
    IF call.submission.fineAmount > 0
    THEN [pool EXCEPT ![call.year] =
            [@ EXCEPT !.exists = TRUE,
                      !.totalFines = call.submission.fineAmount]]
    ELSE pool

batchInterestPool(pool, call) ==
    IF call.submission.fineAmount > 0
    THEN [pool EXCEPT ![call.year] =
            [@ EXCEPT !.exists = TRUE,
                      !.totalFines = @ + call.submission.fineAmount]]
    ELSE pool

\* batch.commit() succeeds: all three writes become visible together; then
\* logAdminAction('submission_approved') runs and the handler reports success
approveCommitLogging(a, appended) ==
    /\ adm[a].pc = "commit"
    /\ adm[a].op = "approve"
    /\ submissions' = batchSubmission(submissions, adm[a])
    /\ members' = batchMember(members, adm[a])
    /\ interestPool' = batchInterestPool(interestPool, adm[a])
    /\ adm' = [adm EXCEPT ![a] = Idle]
    /\ audit' = logAdminAction(appended).audit
    /\ outcome' = outcomeAfter(logAdminAction(appended))
    /\ UNCHANGED <<nowYear, nowMonth, distribution, views, sessions>>

approveCommit(a) == approveCommitLogging(a, TRUE)

\* The same commit when the audit entry cannot be appended
approveCommitLogFails(a) == approveCommitLogging(a, FALSE)

\* Variant of approveCommitFails in which the failure leaves the member's
\* write applied, as three separate writes instead of one batch would
approveCommitFailsHalfway(a) ==
    /\ adm[a].pc = "commit"
    /\ adm[a].op = "approve"
    /\ members' = batchMember(members, adm[a])
    /\ adm' = [adm EXCEPT ![a] = Idle]
    /\ outcome' = "StoreUnavailable"
    /\ UNCHANGED <<submissions, interestPool, nowYear, nowMonth, distribution,
                 audit, views, sessions>>

\* batch.commit() rejects (store unavailable): none of the writes is applied
approveCommitFails(a) ==
    /\ adm[a].pc = "commit"
    /\ adm[a].op = "approve"
    /\ adm' = [adm EXCEPT ![a] = Idle]
    /\ outcome' = "StoreUnavailable"
    /\ UNCHANGED <<submissions, members, interestPool, nowYear, nowMonth, distribution,
                 audit, views, sessions>>

\* admin.js openSubmissionDetail + handleReject: the admin opens a card whose
\* loaded status is pending and confirms Reject with a non-empty reason
handleReject(a, s, reason) ==
    /\ adm[a].pc = "idle"
    /\ s \in DOMAIN submissions
    /\ submissions[s].status = "pending"
    /\ reason # ""
    /\ adm' = [adm EXCEPT ![a] = [Idle EXCEPT !.op = "reject", !.submissionId = s,
                                             !.reason = reason, !.pc = "commit"]]
    /\ outcome' = "none"
    /\ UNCHANGED <<submissions, members, interestPool, nowYear, nowMonth, distribution,
                 audit, views, sessions>>

\* Database.rejectSubmission called directly
callRejectSubmission(a, s, reason) ==
    /\ adm[a].pc = "idle"
    /\ adm' = [adm EXCEPT ![a] = [Idle EXCEPT !.op = "reject", !.submissionId = s,
                                             !.reason = reason, !.pc = "commit"]]
    /\ outcome' = "none"
    /\ UNCHANGED <<submissions, members, interestPool, nowYear, nowMonth, distribution,
                 audit, views, sessions>>

\* Variant of rejectUpdate that does not store the reason
rejectUpdateNoReason(subs, call) ==
    [subs EXCEPT ![call.submissionId] = [@ EXCEPT !.status = "rejected"]]

\* Database.rejectSubmission lines 312-318: the update of the submission
rejectUpdate(subs, call) ==
    [subs EXCEPT ![call.submissionId] =
        [@ EXCEPT !.status = "rejected", !.rejectionReason = call.reason]]

\* Variant of rejectCommitLogging in which the update of a missing document
\* resolves like a set with merge
rejectCommitLoggingUpserts(a, appended) ==
    /\ adm[a].pc = "commit"
    /\ adm[a].op = "reject"
    /\ submissions' = IF adm[a].submissionId \in DOMAIN submissions
                      THEN rejectUpdate(submissions, adm[a])
                      ELSE submissions
    /\ audit' = logAdminAction(appended).audit
    /\ outcome' = outcomeAfter(logAdminAction(appended))
    /\ adm' = [adm EXCEPT ![a] = Idle]
    /\ UNCHANGED <<members, interestPool, nowYear, nowMonth, distribution,
                 views, sessions>>

\* update() on the submission's document: it fails when there is no such
\* document; otherwise logAdminAction('submission_rejected') follows
rejectCommitLogging(a, appended) ==
    /\ adm[a].pc = "commit"
    /\ adm[a].op = "reject"
    /\ IF adm[a].submissionId \in DOMAIN submissions
       THEN /\ submissions' = rejectUpdate(submissions, adm[a])
            /\ audit' = logAdminAction(appended).audit
            /\ outcome' = outcomeAfter(logAdminAction(appended))
       ELSE /\ submissions' = submissions
            /\ audit' = audit
            /\ outcome' = "NotFound"
    /\ adm' = [adm EXCEPT ![a] = Idle]
    /\ UNCHANGED <<members, interestPool, nowYear, nowMonth, distribution,
                 views, sessions>>

rejectCommit(a) == rejectCommitLogging(a, TRUE)

\* The same update when the audit entry cannot be appended
rejectCommitLogFails(a) == rejectCommitLogging(a, FALSE)

\* Database.updateMember: the fields of updates overwrite the member's
updateMember(m, updates) ==
    /\ m \in DOMAIN members
    /\ members' = [members EXCEPT ![m] = updates @@ @]
    /\ outcome' = "none"
    /\ UNCHANGED <<submissions, interestPool, nowYear, nowMonth, distribution, adm,
                 audit, views, sessions>>

UpdateMemberStep ==
    \E m \in DOMAIN members :
        \E st \in {"active", "suspended"} : updateMember(m, [status |-> st])

\* One admin session: every handler and every Database call
Next ==
    \/ SubmitStep
    \/ \E s \in 1..MaxSubs : handleApprove(1, s)
    \/ handleApproveLookup(1)
    \/ handleApproveAddMember(1)
    \/ \E s \in DOMAIN submissions, m \in 0..Len(members) : callApproveSubmission(1, s, m)
    \/ approveGetSubmission(1)
    \/ approveCommit(1)
    \/ approveCommitFails(1)
    \/ \E s \in 1..MaxSubs, r \in Reasons : handleReject(1, s, r)
    \/ \E s \in DOMAIN submissions, r \in Reasons : callRejectSubmission(1, s, r)
    \/ rejectCommit(1)

Spec == Init /\ [][Next]_vars

\* Two admin sessions working through the admin page at the same time
NextConcurrent ==
    \/ SubmitStepConcurrent
    \/ \E a \in Admins, s \in 1..MaxSubs : handleApprove(a, s)
    \/ \E a \in Admins : handleApproveLookup(a)
    \/ \E a \in Admins : handleApproveAddMember(a)
    \/ \E a \in Admins : approveGetSubmission(a)
    \/ \E a \in Admins : approveCommit(a)
    \/ \E a \in Admins, s \in 1..MaxSubs, r \in Reasons : handleReject(a, s, r)
    \/ \E a \in Admins : rejectCommit(a)
    \/ UpdateMemberStep

SpecConcurrent == Init /\ [][NextConcurrent]_vars

\* ------------------------------------------- the Database API called directly
\* new Date(undefined): an invalid date, whose getDate() is NaN; NaN compares
\* false with every number, as day 0 does with the grace period's last day
NoDate == [year |-> 0, day |-> 0]

\* Submission data handed to Database.submitPOP without the form's validation:
\* payments on the last day of the grace period and on the day after it, an
\* amount of zero, a negative amount, a missing payment date
BoundaryForms ==
    {[name |-> "ann", phone |-> <<"0", "8", "-", "2">>, amount |-> 300,
      paymentDate |-> [year |-> 2025, day |-> 7],
      paymentMonth |-> "January 2025", paymentMethod |-> "eft"],
     [name |-> "ann", phone |-> <<"0", "8", "-", "2">>, amount |-> 300,
      paymentDate |-> [year |-> 2025, day |-> 8],
      paymentMonth |-> "January 2025", paymentMethod |-> "eft"],
     [name |-> "ann", phone |-> <<"0", "8", "-", "2">>, amount |-> 0,
      paymentDate |-> [year |-> 2025, day |-> 8],
      paymentMonth |-> "January 2025", paymentMethod |-> "eft"],
     [name |-> "ann", phone |-> <<"0", "8", "-", "2">>, amount |-> 0 - 300,
      paymentDate |-> [year |-> 2025, day |-> 7],
      paymentMonth |-> "January 2025", paymentMethod |-> "eft"],
     [name |-> "ann", phone |-> <<"0", "8", "-", "2">>, amount |-> 300,
      paymentDate |-> NoDate,
      paymentMonth |-> "January 2025", paymentMethod |-> "eft"]}

SubmitStepBoundary ==
    \E form \in BoundaryForms, reference \in OneReference : submitPOP(form, reference)

\* Payments dated across the month, around the end of the grace period
DatedForms ==
    {[name |-> "ann", phone |-> <<"0", "8", "-", "2">>, amount |-> amt,
      paymentDate |-> [year |-> 2025, day |-> d],
      paymentMonth |-> "January 2025", paymentMethod |-> "eft"] :
        amt \in {300, 400}, d \in {1, 6, 7, 8, 9, 31}}

SubmitStepDated ==
    \E form \in DatedForms \cup BoundaryForms, reference \in References :
        submitPOP(form, reference)

\* Database.submitPOP alone, on every kind of submission data
NextSubmit == SubmitStepDated

SpecSubmit == Init /\ [][NextSubmit]_vars

\* ------------------------------------------------------ the submission form
\* What the submitter may type into the form: the dated and the boundary
\* data, and forms with the month or the method left unselected
TypedForms ==
    DatedForms \cup BoundaryForms
    \cup {[f EXCEPT !.paymentMonth = ""] : f \in Forms}
    \cup {[f EXCEPT !.paymentMethod = ""] : f \in Forms}

\* firebase-config.js validateForm: name, phone, amount of at least 1, payment
\* date, payment month and payment method must be filled in (the short
\* phones of the model stand for ten-digit numbers)
validateForm(formData) ==
    /\ formData.name # ""
    /\ formData.phone # <<>>
    /\ formData.amount >= 1
    /\ formData.paymentDate # NoDate
    /\ formData.paymentMonth # ""
    /\ formData.paymentMethod # ""

\* SubmitPOP.handleSubmit: validate, draw a reference, upload the proof under
\* it, put it into the submission data, await Database.submitPOP (which draws
\* the reference it stores, generated, and whose return value is dropped),
\* then show the handler's own reference in the success modal
handleSubmit(formData, reference, generated) ==
    /\ validateForm(formData)
    /\ Len(submissions) < MaxSubs
    /\ submissions' = Append(submissions,
           submissionDocument([reference |-> reference] @@ formData, generated))
    /\ referenceNumber' = reference
    /\ outcome' = "ok"
    /\ UNCHANGED <<members, interestPool, nowYear, nowMonth, distribution, adm,
                 audit, report, stats, sessions>>

\* The upload or the add() rejects: the catch shows a toast, nothing is stored
\* and the modal does not open
handleSubmitFails(formData) ==
    /\ validateForm(formData)
    /\ outcome' = "StoreUnavailable"
    /\ UNCHANGED <<submissions, members, interestPool, nowYear, nowMonth, distribution,
                 adm, audit, views, sessions>>

NextForm ==
    \/ \E formData \in TypedForms, reference \in References, generated \in References :
          handleSubmit(formData, reference, generated)
    \/ \E formData \in TypedForms : handleSubmitFails(formData)

SpecForm == Init /\ [][NextForm]_vars

\* rejectSubmission(submissionId, reason = ''): the reason may be left out
BoundaryReasons == Reasons \cup {""}

\* The updates a suspension bookkeeping would hand to Database.updateMember:
\* the count of skipped months at the threshold together with the status
MemberUpdates == {[skippedMonths |-> maxSkippedMonths, status |-> "suspended"]}

UpdateMemberStepBoundary ==
    \E m \in DOMAIN members : \E updates \in MemberUpdates :
        /\ members[m].status = "active"
        /\ updateMember(m, updates)

\* Database.addMember called for a new member (admin.js handleAddMember);
\* it ends with logAdminAction('member_added')
addMemberLogging(memberData, appended) ==
    /\ Len(members) < MaxMembers
    /\ members' = Append(members, newMember(memberData))
    /\ audit' = logAdminAction(appended).audit
    /\ outcome' = outcomeAfter(logAdminAction(appended))
    /\ UNCHANGED <<submissions, interestPool, nowYear, nowMonth, distribution, adm,
                 views, sessions>>

addMember(memberData) == addMemberLogging(memberData, TRUE)

\* The same call when the audit entry cannot be appended
addMemberLogFails(memberData) == addMemberLogging(memberData, FALSE)

AddMemberStep == addMember([name |-> "ann", phone |-> <<"0", "8", "-", "2">>])

NextBoundary ==
    \/ SubmitStepBoundary
    \/ AddMemberStep
    \/ \E s \in DOMAIN submissions, m \in 0..Len(members) : callApproveSubmission(1, s, m)
    \/ approveGetSubmission(1)
    \/ approveCommit(1)
    \/ \E s \in DOMAIN submissions, r \in BoundaryReasons : callRejectSubmission(1, s, r)
    \/ rejectCommit(1)
    \/ UpdateMemberStepBoundary

SpecBoundary == Init /\ [][NextBoundary]_vars

\* ------------------------------------------------------ interest distribution
\* Utils.qualifiesForInterest
qualifiesAbove(totalSavings) ==
    totalSavings > (IF interestEligibilityMin # 0 THEN interestEligibilityMin ELSE 10000)

qualifiesForInterest(totalSavings) ==
    totalSavings >= (IF interestEligibilityMin # 0 THEN interestEligibilityMin ELSE 10000)

\* Database.getInterestPool: the year's record, or an empty pool when absent
getInterestPool(year) ==
    IF interestPool[year].exists
    THEN [year |-> year, totalFines |-> interestPool[year].totalFines,
          bankInterest |-> interestPool[year].bankInterest]
    ELSE [year |-> year, totalFines |-> 0, bankInterest |-> 0]

\* Variant of calculateInterestDistribution that books the computed pool as
\* paid out
calculateInterestDistributionPaysOut(year) ==
    /\ distribution' = [year |-> year,
                        totalPool |-> interestPool[year].totalFines
                                      + interestPool[year].bankInterest]
    /\ interestPool' = [interestPool EXCEPT ![year].totalFines = 0]
    /\ outcome' = "ok"
    /\ UNCHANGED <<submissions, members, nowYear, nowMonth, adm, audit, views, sessions>>

\* Database.calculateInterestDistribution
calculateInterestDistribution(year) ==
    /\ LET pool == getInterestPool(year)
           qualifyingMembers ==
               {m \in DOMAIN members :
                   /\ members[m].status = "active"
                   /\ qualifiesForInterest(members[m].totalSavings)}
           totalPool == pool.totalFines + pool.bankInterest
           perMember == IF Cardinality(qualifyingMembers) > 0
                        THEN totalPool \div Cardinality(qualifyingMembers)
                        ELSE 0
       IN distribution' = [year |-> year,
                           totalPool |-> totalPool,
                           qualifyingMembersCount |-> Cardinality(qualifyingMembers),
                           perMemberAmount |-> perMember,
                           qualifyingMembers |-> qualifyingMembers]
    /\ outcome' = "ok"
    /\ UNCHANGED <<submissions, members, interestPool, nowYear, nowMonth, adm,
                 audit, views, sessions>>

\* The ledgers the distribution is computed from: up to MaxDrawn members just
\* below, at and above the eligibility minimum, active or suspended, and this
\* year's pool with and without fines and bank interest (last year's absent)
DrawnMemberRecords ==
    {[name |-> "ann", phone |-> <<"0", "8", "2">>, totalSavings |-> sv,
      totalFines |-> 0, verifiedCount |-> 1, status |-> st, skippedMonths |-> 0,
      createdAt |-> 0] : sv \in {9999, 10000, 12000}, st \in {"active", "suspended"}}

DrawnMembers == UNION {[1..n -> DrawnMemberRecords] : n \in 0..MaxDrawn}

DrawnPools ==
    {[y \in Years |->
        IF y = 2025
        THEN [exists |-> TRUE, totalFines |-> tf, bankInterest |-> bi]
        ELSE [exists |-> FALSE, totalFines |-> 0, bankInterest |-> 0]] :
      tf \in {0, 150}, bi \in {0, 50, 51}}

InitDistribution ==
    /\ submissions = <<>>
    /\ members \in DrawnMembers
    /\ interestPool \in DrawnPools
    /\ nowYear = 2025
    /\ nowMonth = 0
    /\ adm = [a \in Admins |-> Idle]
    /\ outcome = "none"
    /\ distribution = NoDistribution
    /\ InitPages

NextDistribution == \E year \in Years : calculateInterestDistribution(year)

SpecDistribution == InitDistribution /\ [][NextDistribution]_vars

\* --------------------------------------------- approvals over a standing pool
\* The pool at the start of a period: no record yet, or this year's record
\* with the bank interest entered and no fines so far
StartPools ==
    {[y \in Years |-> [exists |-> FALSE, totalFines |-> 0, bankInterest |-> 0]]}
        \cup {pool \in DrawnPools : pool[2025].totalFines = 0}

InitPool ==
    /\ submissions = <<>>
    /\ members = <<>>
    /\ interestPool \in StartPools
    /\ nowYear = 2025
    /\ nowMonth = 0
    /\ adm = [a \in Admins |-> Idle]
    /\ outcome = "none"
    /\ distribution = NoDistribution
    /\ InitPages

\* One admin approving through the admin page
NextPool ==
    \/ SubmitStepConcurrent
    \/ \E s \in 1..MaxSubs : handleApprove(1, s)
    \/ handleApproveLookup(1)
    \/ handleApproveAddMember(1)
    \/ approveGetSubmission(1)
    \/ approveCommit(1)
    \/ approveCommitFails(1)

SpecPool == InitPool /\ [][NextPool]_vars

\* --------------------------------------------------- calendar months elapsing
\* A calendar month goes by (the clock behind serverTimestamp and new Date())
monthElapses ==
    /\ nowMonth < MaxMonths
    /\ nowMonth' = nowMonth + 1
    /\ outcome' = "none"
    /\ UNCHANGED <<submissions, members, interestPool, nowYear, distribution, adm,
                 audit, views, sessions>>

\* Everything in src/ that writes a member record, and the admin's
\* distribution query, while the months go by
NextCalendar ==
    \/ monthElapses
    \/ AddMemberStep
    \/ SubmitStepConcurrent
    \/ \E s \in 1..MaxSubs : handleApprove(1, s)
    \/ handleApproveLookup(1)
    \/ handleApproveAddMember(1)
    \/ approveGetSubmission(1)
    \/ approveCommit(1)
    \/ \E year \in Years : calculateInterestDistribution(year)

\* Nothing that can run is put off forever: the months elapse and every
\* started handler runs to its end
SpecCalendar == Init /\ [][NextCalendar]_vars /\ WF_vars(NextCalendar)

\* ------------------------------------------------------ read-side operations
\* Utils.getMonthName: months[month - 1] || ''
getMonthName(month) ==
    LET months == <<"January", "February", "March", "April", "May", "June", "July",
                    "August", "September", "October", "November", "December">>
    IN IF month \in DOMAIN months THEN months[month] ELSE ""

\* Math.round of the percentage compliant / total (both non-negative)
roundedPercent(compliant, total) == (200 * compliant + total) \div (2 * total)

\* Database.generateMonthlyReport(month, year)
generateMonthlyReport(month, year) ==
    /\ LET paymentMonth == getMonthName(month) \o " " \o ToString(year)
           ofMonth == {s \in DOMAIN submissions :
                          submissions[s].paymentMonth = paymentMonth}
           verified == {s \in ofMonth : submissions[s].status = "verified"}
           pending == {s \in ofMonth : submissions[s].status = "pending"}
           rejected == {s \in ofMonth : submissions[s].status = "rejected"}
           amountOf(s) == submissions[s].amount
           fineOf(s) == submissions[s].fineAmount
           compliantMembers == Cardinality(verified)
           complianceRate == IF Len(members) > 0
                             THEN roundedPercent(compliantMembers, Len(members))
                             ELSE 0
       IN report' =
              [period |-> paymentMonth,
               totalMembers |-> Len(members),
               submissions |-> [total |-> Cardinality(ofMonth),
                                verified |-> Cardinality(verified),
                                pending |-> Cardinality(pending),
                                rejected |-> Cardinality(rejected)],
               financials |-> [totalAmount |-> SumOf(amountOf, verified),
                               totalFines |-> SumOf(fineOf, verified),
                               latePayments |->
                                   Cardinality({s \in verified : submissions[s].isLate})],
               compliance |-> [compliantMembers |-> compliantMembers,
                               rate |-> complianceRate]]
    /\ outcome' = "ok"
    /\ UNCHANGED <<submissions, members, interestPool, nowYear, nowMonth, distribution,
                 adm, audit, stats, referenceNumber, sessions>>

\* Database.getDashboardStats
getDashboardStats ==
    /\ LET savingsOf(m) == members[m].totalSavings
           finesOf(m) == members[m].totalFines
       IN stats' =
              [memberCount |-> Len(members),
               pendingCount |-> Cardinality({s \in DOMAIN submissions :
                                                submissions[s].status = "pending"}),
               verifiedCount |-> Cardinality({s \in DOMAIN submissions :
                                                 submissions[s].status = "verified"}),
               totalSavings |-> SumOf(savingsOf, DOMAIN members),
               totalFines |-> SumOf(finesOf, DOMAIN members),
               activeMembers |-> Cardinality({m \in DOMAIN members :
                                                 members[m].status = "active"})]
    /\ outcome' = "ok"
    /\ UNCHANGED <<submissions, members, interestPool, nowYear, nowMonth, distribution,
                 adm, audit, report, referenceNumber, sessions>>

\* The months the reports page asks for
ReportMonths == {12, 1}

\* Submissions filed, approved through the admin page and rejected, with the
\* read-side operations run at any point in between
NextReport ==
    \/ SubmitStepConcurrent
    \/ \E s \in 1..MaxSubs : handleApprove(1, s)
    \/ handleApproveLookup(1)
    \/ handleApproveAddMember(1)
    \/ approveGetSubmission(1)
    \/ approveCommit(1)
    \/ \E s \in 1..MaxSubs, r \in Reasons : handleReject(1, s, r)
    \/ rejectCommit(1)
    \/ \E month \in ReportMonths, year \in Years : generateMonthlyReport(month, year)
    \/ getDashboardStats
    \/ calculateInterestDistribution(nowYear)

SpecReport == Init /\ [][NextReport]_vars

\* ------------------------------------------------- calls with any document id
\* Database.approveSubmission and Database.rejectSubmission called with the id
\* of a stored submission or with an id no document has
NextAnyId ==
    \/ SubmitStepConcurrent
    \/ AddMemberStep
    \/ \E s \in 1..(MaxSubs + 1), m \in 0..Len(members) : callApproveSubmission(1, s, m)
    \/ approveGetSubmission(1)
    \/ approveCommit(1)
    \/ \E s \in 1..(MaxSubs + 1), r \in Reasons : callRejectSubmission(1, s, r)
    \/ rejectCommit(1)

SpecAnyId == Init /\ [][NextAnyId]_vars

\* ------------------------------------------------ the audit log unavailable
\* The admin page's approve, reject and add-member operations, each with the
\* audit entry appended or with the append failing
NextAudit ==
    \/ SubmitStepConcurrent
    \/ AddMemberStep
    \/ addMemberLogFails([name |-> "ann", phone |-> <<"0", "8", "-", "2">>])
    \/ \E s \in 1..MaxSubs : handleApprove(1, s)
    \/ handleApproveLookup(1)
    \/ handleApproveAddMember(1)
    \/ handleApproveAddMemberLogFails(1)
    \/ approveGetSubmission(1)
    \/ approveCommit(1)
    \/ approveCommitLogFails(1)
    \/ \E s \in 1..MaxSubs, r \in Reasons : handleReject(1, s, r)
    \/ rejectCommit(1)
    \/ rejectCommitLogFails(1)

SpecAudit == Init /\ [][NextAudit]_vars

\* ------------------------------------------------------- the admin session
\* The codes typed into the login form: the stored admin code and another one
Codes == {"adminCode", "other"}

\* admin.js handleAdminLogin with Auth.verifyAdminCode: on the stored code the
\* session is written to the browser's storage, the login is logged and the
\* dashboard is shown; on any other code the field error is shown
handleAdminLogin(code) ==
    /\ ~session.dashboard
    /\ IF code = "adminCode"
       THEN /\ session' = [isAdmin |-> TRUE, adminSessionStart |-> nowHour,
                           dashboard |-> TRUE]
            /\ audit' = logAdminAction(TRUE).audit
            /\ outcome' = "ok"
       ELSE /\ session' = session
            /\ audit' = audit
            /\ outcome' = "Invalid admin code"
    /\ UNCHANGED <<submissions, members, interestPool, nowYear, nowMonth, distribution,
                 adm, views, nowHour>>

\* Auth.checkAdminSession: admin flag set and the session younger than
\* sessionDuration
sessionValid ==
    session.isAdmin /\ nowHour - session.adminSessionStart < sessionDuration

\* The admin page is loaded (admin.js init -> checkAdminSession): a valid
\* session shows the dashboard, otherwise the stored session is removed and
\* the login section is shown
checkAdminSession ==
    /\ \A a \in Admins : adm[a].pc = "idle"
    /\ session' = IF sessionValid
                  THEN [session EXCEPT !.dashboard = TRUE]
                  ELSE SignedOut
    /\ outcome' = "none"
    /\ UNCHANGED <<submissions, members, interestPool, nowYear, nowMonth, distribution,
                 adm, audit, views, nowHour>>

\* admin.js handleLogout with Auth.signOutAdmin: the logout is logged, the
\* stored session is removed and the page is left
handleLogout ==
    /\ session.dashboard
    /\ \A a \in Admins : adm[a].pc = "idle"
    /\ session' = SignedOut
    /\ audit' = logAdminAction(TRUE).audit
    /\ outcome' = "none"
    /\ UNCHANGED <<submissions, members, interestPool, nowYear, nowMonth, distribution,
                 adm, views, nowHour>>

\* Half a session's length goes by while the page stays as it is and no
\* handler is running
hoursElapse ==
    /\ nowHour < MaxHours
    /\ \A a \in Admins : adm[a].pc = "idle"
    /\ nowHour' = nowHour + sessionDuration \div 2
    /\ UNCHANGED <<submissions, members, interestPool, nowYear, nowMonth, distribution,
                 adm, outcome, audit, views, session>>

\* The dashboard's buttons: the handlers are reachable while the dashboard is
\* shown, and none of them reads the session again
NextSession ==
    \/ SubmitStepConcurrent
    \/ \E code \in Codes : handleAdminLogin(code)
    \/ checkAdminSession
    \/ handleLogout
    \/ hoursElapse
    \/ session.dashboard /\ AddMemberStep
    \/ \E s \in 1..MaxSubs : session.dashboard /\ handleApprove(1, s)
    \/ handleApproveLookup(1)
    \/ handleApproveAddMember(1)
    \/ approveGetSubmission(1)
    \/ approveCommit(1)
    \/ \E s \in 1..MaxSubs, r \in Reasons : session.dashboard /\ handleReject(1, s, r)
    \/ rejectCommit(1)

SpecSession == Init /\ [][NextSession]_vars

\* ================================================================ claims
\* The step in which admin a's approve call resolves its batch commit
ApproveResolves(a) ==
    /\ adm[a].pc = "commit"
    /\ adm[a].op = "approve"
    /\ adm'[a].pc = "idle"

\* The step in which admin a's reject call resolves its update
RejectResolves(a) ==
    /\ adm[a].pc = "commit"
    /\ adm[a].op = "reject"
    /\ adm'[a].pc = "idle"

\* The credited fields of the member records and the interest pool
Aggregates(member) ==
    <<member.totalSavings, member.totalFines, member.verifiedCount>>

LedgersUnchanged ==
    /\ \A m \in DOMAIN members :
          m \in DOMAIN members' /\ Aggregates(members'[m]) = Aggregates(members[m])
    /\ \A m \in DOMAIN members' \ DOMAIN members :
          Aggregates(members'[m]) = <<0, 0, 0>>
    /\ interestPool' = interestPool

VerifiedFor(m) ==
    {s \in DOMAIN submissions :
        submissions[s].status = "verified" /\ submissions[s].memberId = m}
VerifiedIn(y) ==
    {s \in DOMAIN submissions :
        submissions[s].status = "verified" /\ submissions[s].paymentDate.year = y}

\* C1: a submission's status changes only from pending, to verified or to
\* rejected; an approve or reject call that finds it verified or rejected
\* leaves the status alone and fails.
C1_StatusOneWay ==
    [][ /\ \A s \in DOMAIN submissions :
              submissions'[s].status # submissions[s].status
                  => /\ submissions[s].status = "pending"
                     /\ submissions'[s].status \in {"verified", "rejected"}
        /\ \A a \in Admins :
              (ApproveResolves(a) \/ RejectResolves(a))
              /\ submissions[adm[a].submissionId].status # "pending"
                  => outcome' # "ok" ]_vars

\* C2: approve on a submission that is already verified fails and leaves the
\* member's totalSavings, totalFines, verifiedCount and the pool's totalFines
\* at their values from before the attempt.
C2_NoSecondCredit ==
    [][ \A a \in Admins :
            ApproveResolves(a) /\ submissions[adm[a].submissionId].status = "verified"
                => outcome' # "ok" /\ LedgersUnchanged ]_vars

\* C3: of two admins approving the same pending submission concurrently, the
\* one whose commit comes second (it read the submission as pending, the
\* store holds it verified by then) fails and credits nothing.
C3_OneApprovalWins ==
    [][ \A a \in Admins :
            /\ ApproveResolves(a)
            /\ adm[a].submission.status = "pending"
            /\ submissions[adm[a].submissionId].status = "verified"
            => outcome' # "ok" /\ LedgersUnchanged ]_vars

\* C4: every member's totalSavings is the sum of amount over the verified
\* submissions linked to that member.
C4_SavingsAreVerifiedSum ==
    \A m \in DOMAIN members :
        members[m].totalSavings =
            SumOf(LAMBDA s : submissions[s].amount, VerifiedFor(m))

\* C5: every year's pool totalFines is the sum of fineAmount over the
\* verified submissions whose paymentDate falls in that year.
C5_PoolIsFinesOfPaymentYear ==
    \A y \in Years :
        interestPool[y].totalFines =
            SumOf(LAMBDA s : submissions[s].fineAmount, VerifiedIn(y))

\* C6: an approve commit is all-or-nothing: it either fails and leaves the
\* submissions, the members and the pool as they were, or it succeeds and the
\* submission is verified with the member credit and, for a fine, the pool
\* credit applied in the same step; credits never change in any other step.
C6_ApprovalAllOrNothing ==
  /\ [](/\ (\A s \in DOMAIN submissions : submissions[s].status = "pending")
            => /\ \A m \in DOMAIN members : Aggregates(members[m]) = <<0, 0, 0>>
               /\ \A y \in Years : interestPool[y].totalFines = 0
        /\ \A m \in DOMAIN members :
            /\ members[m].totalSavings >=
                   SumOf(LAMBDA s : submissions[s].amount, VerifiedFor(m))
            /\ members[m].totalFines >=
                   SumOf(LAMBDA s : submissions[s].fineAmount, VerifiedFor(m))
        /\ SumOf(LAMBDA y : interestPool[y].totalFines, Years) >=
               SumOf(LAMBDA s : submissions[s].fineAmount,
                     {s \in DOMAIN submissions : submissions[s].status = "verified"}))
  /\
    [][ /\ \A a \in Admins :
              ApproveResolves(a) =>
                LET s == adm[a].submissionId
                    m == adm[a].memberId
                    amount == submissions[s].amount
                    fine == submissions[s].fineAmount
                IN \/ /\ outcome' # "ok"
                      /\ submissions' = submissions
                      /\ members' = members
                      /\ interestPool' = interestPool
                   \/ /\ outcome' = "ok"
                      /\ submissions'[s].status = "verified"
                      /\ m # NoId =>
                           /\ members'[m].totalSavings = members[m].totalSavings + amount
                           /\ members'[m].totalFines = members[m].totalFines + fine
                           /\ members'[m].verifiedCount = members[m].verifiedCount + 1
                      /\ fine > 0 =>
                           \E y \in Years :
                               interestPool'[y].totalFines = interestPool[y].totalFines + fine
        /\ ~LedgersUnchanged =>
              \E a \in Admins :
                  ApproveResolves(a) /\ submissions'[adm[a].submissionId].status = "verified"
      ]_vars

C6_Witness ==
    /\ outcome = "StoreUnavailable"
    /\ members # <<>>
    /\ \A m \in DOMAIN members : members[m].totalSavings = 0
    /\ \E s \in DOMAIN submissions : submissions[s].status = "pending"

\* C7: approvals for the same member, in sequence or interleaved, lose no
\* increment: each successful approve adds the submission's amount and 1 to
\* the member's current totalSavings and verifiedCount, so the totals never
\* fall below the sum and the number of the member's verified submissions
\* (300 late and 400 approved for one member: 700 and 2).
C7_NoLostIncrement ==
    /\ [](\A m \in DOMAIN members :
            /\ members[m].totalSavings >=
                   SumOf(LAMBDA s : submissions[s].amount, VerifiedFor(m))
            /\ members[m].verifiedCount >= Cardinality(VerifiedFor(m)))
    /\ [][ \A a \in Admins :
             ApproveResolves(a) /\ outcome' = "ok" /\ adm[a].memberId # NoId =>
               LET m == adm[a].memberId
               IN /\ members'[m].totalSavings =
                         members[m].totalSavings + submissions[adm[a].submissionId].amount
                  /\ members'[m].verifiedCount = members[m].verifiedCount + 1 ]_vars

C7_Witness ==
    \E m \in DOMAIN members :
        /\ Cardinality(VerifiedFor(m)) = 2
        /\ members[m].totalSavings = 700
        /\ members[m].verifiedCount = 2
        /\ \E a \in Admins : adm[a].pc = "idle" /\ outcome = "ok"

\* C8: a successful approve of a pending submission sets its status to
\* verified and its memberId to the given id; with a member id it adds amount,
\* fineAmount and 1 to that member's totalSavings, totalFines and
\* verifiedCount and zeroes skippedMonths, without one it changes no member;
\* it credits the pool with fineAmount only when fineAmount > 0.
C8_ApproveEffect ==
    [][ \A a \in Admins :
            /\ ApproveResolves(a)
            /\ outcome' = "ok"
            /\ submissions[adm[a].submissionId].status = "pending"
            => LET s == adm[a].submissionId
                   m == adm[a].memberId
                   sub == submissions[s]
               IN /\ submissions' = [submissions EXCEPT ![s] =
                         [@ EXCEPT !.status = "verified", !.memberId = m]]
                  /\ IF m = NoId THEN members' = members
                     ELSE members' = [members EXCEPT ![m] =
                              [@ EXCEPT !.totalSavings = @ + sub.amount,
                                        !.totalFines = @ + sub.fineAmount,
                                        !.verifiedCount = @ + 1,
                                        !.skippedMonths = 0]]
                  /\ IF sub.fineAmount > 0
                     THEN \E y \in Years :
                            interestPool' = [interestPool EXCEPT ![y] =
                                [@ EXCEPT !.exists = TRUE,
                                          !.totalFines = @ + sub.fineAmount]]
                     ELSE interestPool' = interestPool ]_vars

C8_Witness ==
    /\ outcome = "ok"
    /\ Len(members) = 1
    /\ members[1].totalSavings = 300
    /\ members[1].totalFines = 50
    /\ members[1].verifiedCount = 1
    /\ \E s \in VerifiedFor(1) : submissions[s].isLate

\* C9: reject on a pending submission sets its status to rejected and stores
\* the reason, and leaves every member record and every pool record unchanged.
C9_RejectEffect ==
    [][ \A a \in Admins :
            /\ RejectResolves(a)
            /\ submissions[adm[a].submissionId].status = "pending"
            => /\ submissions' = [submissions EXCEPT ![adm[a].submissionId] =
                      [@ EXCEPT !.status = "rejected", !.rejectionReason = adm[a].reason]]
               /\ members' = members
               /\ interestPool' = interestPool ]_vars

C9_Witness ==
    /\ outcome = "ok"
    /\ \E s \in DOMAIN submissions :
          /\ submissions[s].status = "rejected"
          /\ submissions[s].rejectionReason = "wrong proof"
          /\ submissions[s].memberId = NoId
    /\ \E m \in DOMAIN members : members[m].totalSavings > 0

\* C10: every submission has fineAmount > 0 exactly when isLate, and no later
\* step (approve, reject, member update) changes its isLate or fineAmount.
C10_FineFixedAtCreation ==
    /\ [](\A s \in DOMAIN submissions :
            submissions[s].fineAmount > 0 <=> submissions[s].isLate)
    /\ [][ \A s \in DOMAIN submissions :
             /\ submissions'[s].isLate = submissions[s].isLate
             /\ submissions'[s].fineAmount = submissions[s].fineAmount ]_vars

C10_Witness ==
    /\ \E s \in DOMAIN submissions :
          /\ submissions[s].isLate
          /\ submissions[s].fineAmount = 50
          /\ submissions[s].status = "verified"
    /\ \E s \in DOMAIN submissions :
          /\ ~submissions[s].isLate
          /\ submissions[s].fineAmount = 0
          /\ submissions[s].status = "rejected"
    /\ \E m \in DOMAIN members : members[m].status = "suspended"

\* C11: submit computes isLate as (day of paymentDate > 7) and fineAmount as
\* 50 when late and 0 otherwise, and creates the submission as pending: a
\* payment dated the 7th or earlier carries no fine, one dated the 8th or
\* later carries 50.
C11_SubmitComputesFine ==
    /\ [](\A s \in DOMAIN submissions :
            submissions[s].paymentDate # NoDate =>
                /\ submissions[s].isLate = (submissions[s].paymentDate.day > 7)
                /\ submissions[s].paymentDate.day <= 7 => submissions[s].fineAmount = 0
                /\ submissions[s].paymentDate.day >= 8 => submissions[s].fineAmount = 50)
    /\ [][ Len(submissions') = Len(submissions) + 1 =>
             /\ submissions'[Len(submissions')].status = "pending"
             /\ \A s \in DOMAIN submissions : submissions'[s] = submissions[s] ]_vars

C11_Witness ==
    /\ \E s \in DOMAIN submissions :
          /\ submissions[s].paymentDate.day = 7
          /\ ~submissions[s].isLate
          /\ submissions[s].fineAmount = 0
          /\ submissions[s].status = "pending"
    /\ \E s \in DOMAIN submissions :
          /\ submissions[s].paymentDate.day = 8
          /\ submissions[s].isLate
          /\ submissions[s].fineAmount = 50
          /\ submissions[s].status = "pending"

\* C12: submit with amount <= 0 or without a payment date fails and creates
\* no record, so no stored submission has amount <= 0 or lacks its date.
C12_SubmitValidates ==
    \A s \in DOMAIN submissions :
        /\ submissions[s].amount > 0
        /\ submissions[s].paymentDate # NoDate

\* C13: a reject call with an empty or omitted reason does not reject the
\* submission, so every rejected submission has a non-empty stored reason.
C13_RejectedHasReason ==
    \A s \in DOMAIN submissions :
        submissions[s].status = "rejected" => submissions[s].rejectionReason # ""

\* C15: every member is suspended exactly when skippedMonths >= 3; after an
\* approval has reset skippedMonths to 0 the member is active.
C15_SuspendedIffSkipped ==
    \A m \in DOMAIN members :
        members[m].status = "suspended" <=> members[m].skippedMonths >= 3

\* C17: every member's totalSavings and totalFines are >= 0 in every state
\* and never decrease from one state to the next.
C17_TotalsNeverDecrease ==
    /\ [](\A m \in DOMAIN members :
            members[m].totalSavings >= 0 /\ members[m].totalFines >= 0)
    /\ [][ \A m \in DOMAIN members :
             /\ members'[m].totalSavings >= members[m].totalSavings
             /\ members'[m].totalFines >= members[m].totalFines ]_vars

\* C18: a member's totalSavings, totalFines, verifiedCount, skippedMonths and
\* status change only in the commit of a submission approval; updateMember,
\* submit, reject and every other step leave them as they are.
C18_AggregatesOnlyByApproval ==
    [][ (\E m \in DOMAIN members :
            \/ Aggregates(members'[m]) # Aggregates(members[m])
            \/ members'[m].skippedMonths # members[m].skippedMonths
            \/ members'[m].status # members[m].status)
        => \E a \in Admins : ApproveResolves(a) ]_vars

\* The members calculateInterestDistribution is to count: active, with
\* totalSavings of at least 10000
Eligible ==
    {m \in DOMAIN members :
        members[m].status = "active" /\ members[m].totalSavings >= 10000}

\* C14: the distribution computed for a year has totalPool = the pool's
\* totalFines + bankInterest, counts exactly the active members with
\* totalSavings >= 10000, and has perMemberAmount = floor(totalPool / count)
\* when the count is positive and 0 when it is zero (150 + 50 over 2
\* eligible members: 200 and 100).
C14_Distribution ==
    distribution # NoDistribution =>
        LET y == distribution.year
            count == Cardinality(Eligible)
        IN /\ distribution.totalPool =
                  IF interestPool[y].exists
                  THEN interestPool[y].totalFines + interestPool[y].bankInterest
                  ELSE 0
           /\ distribution.qualifyingMembers = Eligible
           /\ distribution.qualifyingMembersCount = count
           /\ count = 0 => distribution.perMemberAmount = 0
           /\ count > 0 =>
                /\ distribution.perMemberAmount * count <= distribution.totalPool
                /\ distribution.totalPool < (distribution.perMemberAmount + 1) * count

C14_Witness ==
    /\ distribution # NoDistribution
    /\ interestPool[distribution.year].totalFines = 150
    /\ interestPool[distribution.year].bankInterest = 50
    /\ Cardinality(Eligible) = 2
    /\ distribution.totalPool = 200
    /\ distribution.perMemberAmount = 100

\* A member record that has been credited no approval for three elapsed months
Overdue(m) ==
    /\ m \in DOMAIN members
    /\ members[m].verifiedCount = 0
    /\ nowMonth - members[m].createdAt >= 3

\* C16: a member with no approved payment for 3 consecutive elapsed months
\* eventually has skippedMonths at 3 and status suspended.
C16_SkippingLeadsToSuspension ==
    \A m \in 1..(MaxMembers + MaxSubs) :
        [](Overdue(m) =>
              <>(/\ m \in DOMAIN members
                 /\ members[m].skippedMonths >= 3
                 /\ members[m].status = "suspended"))

\* C19: each approval of a submission with fineAmount > 0 adds exactly
\* fineAmount to the totalFines of one pool record, creating it if absent, and
\* leaves its bankInterest and every other record unchanged; no step
\* overwrites or lowers a pool's totalFines.
C19_PoolCreditAdditive ==
    [][ /\ \A a \in Admins :
              /\ ApproveResolves(a)
              /\ outcome' = "ok"
              /\ submissions[adm[a].submissionId].fineAmount > 0
              => \E y \in Years :
                    /\ interestPool'[y].exists
                    /\ interestPool'[y].totalFines =
                           interestPool[y].totalFines
                               + submissions[adm[a].submissionId].fineAmount
                    /\ interestPool'[y].bankInterest = interestPool[y].bankInterest
                    /\ \A z \in Years \ {y} : interestPool'[z] = interestPool[z]
        /\ \A y \in Years :
              /\ interestPool'[y].totalFines >= interestPool[y].totalFines
              /\ interestPool'[y].bankInterest = interestPool[y].bankInterest
              /\ interestPool[y].exists => interestPool'[y].exists ]_vars

C19_Witness ==
    /\ outcome = "ok"
    /\ \E y \in Years :
          /\ interestPool[y].exists
          /\ interestPool[y].totalFines = 100
          /\ interestPool[y].bankInterest = 50
    /\ Cardinality({s \in DOMAIN submissions :
                       submissions[s].status = "verified"
                       /\ submissions[s].fineAmount = 50}) = 2

\* C20: a submission has a member id only if it is verified and a stored
\* rejection reason only if it is rejected.
C20_DecisionFields ==
    \A s \in DOMAIN submissions :
        /\ submissions[s].memberId # NoId => submissions[s].status = "verified"
        /\ submissions[s].rejectionReason # "" => submissions[s].status = "rejected"

\* C24: the late fine is charged once per month: for every member and every
\* payment month, the fines of the member's verified submissions for that
\* month add up to at most one late-fine amount.
C24_OneFinePerMonth ==
    \A m \in DOMAIN members, month \in {f.paymentMonth : f \in Forms} :
        LET fineOf(s) == submissions[s].fineAmount
        IN SumOf(fineOf, {s \in VerifiedFor(m) : submissions[s].paymentMonth = month})
               <= lateFineAmount

\* C27: the normalized phone number identifies a member: no two member
\* records have the same phone number.
C27_PhoneIdentifiesMember ==
    \A m, n \in DOMAIN members : members[m].phone = members[n].phone => m = n

\* C29: a member created by the approval flow exists only together with an
\* approved submission: once no approval is under way, every member record
\* has at least one verified submission linked to it (no member is left
\* behind by an approval that failed).
C29_NoMemberWithoutApproval ==
    (\A a \in Admins : adm[a].pc = "idle")
        => \A m \in DOMAIN members : VerifiedFor(m) # {}

\* C21: financial data is immutable: no step changes the amount, payment
\* date, payment month, payment method, reference, lateness or fine of an
\* existing submission, and no step removes a submission or a member record.
C21_FinancialDataImmutable ==
    [][ /\ DOMAIN submissions \subseteq DOMAIN submissions'
        /\ DOMAIN members \subseteq DOMAIN members'
        /\ \A s \in DOMAIN submissions :
              /\ submissions'[s].amount = submissions[s].amount
              /\ submissions'[s].paymentDate = submissions[s].paymentDate
              /\ submissions'[s].paymentMonth = submissions[s].paymentMonth
              /\ submissions'[s].paymentMethod = submissions[s].paymentMethod
              /\ submissions'[s].reference = submissions[s].reference
              /\ submissions'[s].isLate = submissions[s].isLate
              /\ submissions'[s].fineAmount = submissions[s].fineAmount ]_vars

\* A late submission approved and another one rejected, the member updated
C21_Witness ==
    /\ \E s \in DOMAIN submissions :
          /\ submissions[s].status = "verified"
          /\ submissions[s].isLate
          /\ submissions[s].fineAmount = lateFineAmount
          /\ submissions[s].paymentMonth = "December 2024"
          /\ submissions[s].reference \in References
    /\ \E s \in DOMAIN submissions :
          /\ submissions[s].status = "rejected"
          /\ submissions[s].amount = 400
          /\ submissions[s].paymentMethod = "cash"
    /\ \E m \in DOMAIN members : members[m].status = "suspended"

\* C28: after a successful form submission the reference code shown to the
\* submitter is the reference stored on the record the submission created.
C28_ShownReferenceIsStored ==
    [][ (outcome' = "ok" /\ Len(submissions') = Len(submissions) + 1)
            => submissions'[Len(submissions')].reference = referenceNumber' ]_vars

\* C25: the monthly report's compliance rate is the number of distinct members
\* with a verified submission for the month over the number of members, as a
\* rounded percentage (0 without members), hence at most 100; its counts by
\* status are those of the month's submissions when the report was read.
C25_ComplianceRate ==
    [][ report' # report =>
          LET ofMonth == {s \in DOMAIN submissions :
                             submissions[s].paymentMonth = report'.period}
              verified == {s \in ofMonth : submissions[s].status = "verified"}
              compliant == {submissions[s].memberId : s \in verified}
          IN /\ report'.compliance.rate <= 100
             /\ report'.compliance.rate =
                    IF Len(members) > 0
                    THEN (200 * Cardinality(compliant) + Len(members))
                             \div (2 * Len(members))
                    ELSE 0
             /\ report'.submissions.total = Cardinality(ofMonth)
             /\ report'.submissions.verified = Cardinality(verified)
             /\ report'.submissions.pending =
                    Cardinality({s \in ofMonth : submissions[s].status = "pending"})
             /\ report'.submissions.rejected =
                    Cardinality({s \in ofMonth : submissions[s].status = "rejected"}) ]_vars

\* C26: the read-side operations leave every submission, member and interest
\* pool record unchanged: a step that produces a report, dashboard statistics
\* or a distribution changes none of the three ledgers.
C26_ReadsChangeNothing ==
    [][ (report' # report \/ stats' # stats \/ distribution' # distribution)
            => UNCHANGED <<submissions, members, interestPool>> ]_vars

\* All three read-side results computed over a ledger with an approved late
\* submission, and another approval applied since the report was read
C26_Witness ==
    /\ report # NoReport
    /\ report.submissions.verified = 1
    /\ stats # NoStats
    /\ stats.totalFines = lateFineAmount
    /\ distribution # NoDistribution
    /\ distribution.totalPool = lateFineAmount
    /\ Cardinality({s \in DOMAIN submissions : submissions[s].status = "verified"}) = 2

\* C23: an approve or a reject call whose submission id names no stored
\* submission fails with NotFound and writes nothing: when such a call
\* resolves, no submission, member, pool record or audit entry is written.
C23_UnknownIdWritesNothing ==
    [][ \A a \in Admins :
          (/\ adm[a].op \in {"approve", "reject"}
           /\ adm[a].submissionId \notin DOMAIN submissions
           /\ adm'[a] # adm[a])
             => /\ adm'[a] = Idle
                /\ outcome' = "NotFound"
                /\ UNCHANGED <<submissions, members, interestPool, audit>> ]_vars

\* A call with an unknown id has failed while the store holds a pending
\* submission and a member
C23_Witness ==
    /\ outcome = "NotFound"
    /\ adm[1] = Idle
    /\ Len(members) = 1
    /\ Len(submissions) = 1
    /\ submissions[1].status = "pending"

\* C22: when the append of the audit entry fails, the admin operation still
\* completes: no error reaches the caller and the ledgers are written exactly
\* as they are when the append succeeds (approve: status, member credit and
\* pool credit; reject: status and reason; add member: the new record).
C22_LogFailureSwallowed ==
    [][ (audit # "failed" /\ audit' = "failed") =>
          \/ \E a \in Admins :
                /\ adm[a].pc = "commit" /\ adm[a].op = "approve"
                /\ outcome' = "ok"
                /\ adm'[a] = Idle
                /\ submissions' = batchSubmission(submissions, adm[a])
                /\ members' = batchMember(members, adm[a])
                /\ interestPool' = batchInterestPool(interestPool, adm[a])
          \/ \E a \in Admins :
                /\ adm[a].pc = "commit" /\ adm[a].op = "reject"
                /\ outcome' = "ok"
                /\ adm'[a] = Idle
                /\ submissions' = rejectUpdate(submissions, adm[a])
                /\ UNCHANGED <<members, interestPool>>
          \/ \E a \in Admins :
                /\ adm[a].pc = "addMember"
                /\ outcome' = "none"
                /\ adm'[a].pc = "getSubmission"
                /\ adm'[a].memberId = Len(members')
                /\ Len(members') = Len(members) + 1
                /\ UNCHANGED <<submissions, interestPool>>
          \/ /\ \A a \in Admins : adm'[a] = adm[a]
             /\ outcome' = "ok"
             /\ Len(members') = Len(members) + 1
             /\ UNCHANGED <<submissions, interestPool>> ]_vars

\* An approval has completed with its audit entry lost: the submission is
\* verified and its amount and fine are credited
C22_Witness ==
    /\ audit = "failed"
    /\ outcome = "ok"
    /\ \E s \in DOMAIN submissions :
          /\ submissions[s].status = "verified"
          /\ submissions[s].memberId \in DOMAIN members
          /\ members[submissions[s].memberId].totalSavings = submissions[s].amount
          /\ submissions[s].fineAmount = lateFineAmount
          /\ interestPool[nowYear].totalFines = lateFineAmount

\* C30: approve, reject and add-member take effect only under a valid admin
\* session: whenever a step adds or changes a member record, changes a stored
\* submission or changes the interest pool, the admin code was verified less
\* than 24 hours earlier and the admin has not signed out since.
C30_WritesNeedValidSession ==
    [][ (\/ members' # members
         \/ interestPool' # interestPool
         \/ \E s \in DOMAIN submissions : submissions'[s] # submissions[s])
            => sessionValid ]_vars
====
